---- MODULE Spec2Model ----
(***************************************************************************)
(* core/ml_model.py: the SolarPowerMLModel store (train_model, load_model, *)
(* predict_power_output) and the grid search of                            *)
(* find_optimal_configuration.                                             *)
(*                                                                         *)
(* Spec    : the process-wide ml_model instance, its two persisted files   *)
(*           and the calls made on it, one call at a time.                 *)
(* SpecOpt : one find_optimal_configuration call, one grid cell per step,  *)
(*           against a fixed fitted regressor.                             *)
(* SpecPredict : the arithmetic of predict_power_output on every raw       *)
(*           prediction the model can give.                                *)
(* SpecRepeat : Spec's instance predicting again and again, with the       *)
(*           latest prediction remembered.                                 *)
(* SpecArgs : one call of predict_power_output or                          *)
(*           find_optimal_configuration from its arguments and weather     *)
(*           reading to what its caller stores.                            *)
(* SpecGen, SpecRetrain : generate_synthetic_data on numpy's global        *)
(*           generator, train_model and the retrain_model command.         *)
(* SpecExample : one pass of generate_synthetic_data's loop body on every  *)
(*           draw.                                                         *)
(* SpecFailFast : the grid search with a Predictor that can raise at any   *)
(*           cell.                                                         *)
(* SpecWeather : one get_weather_data call of core/weather_service.py for  *)
(*           every outcome of each request it sends.                       *)
(* SpecThreads : request threads calling predict_power_output, load_model  *)
(*           and train_model on the shared instance, statement by          *)
(*           statement.                                                    *)
(* SpecReaders : threads that only predict, on a fitted pair.              *)
(***************************************************************************)
EXTENDS Integers, Sequences, FiniteSets, TLC

\* ------------------------------------------------------------------ bounds

\* Training runs told apart (this process's and the retrain command's).
MaxRuns == 3
\* Trees of the forest (n_estimators=100 in the source, scaled down).
NEstimators == 2
\* Raw per-tree predictions range over -MaxRaw..MaxRaw.
MaxRaw == 3
\* Fixed-point resolution of a float: the value v stands for v / Scale.
Scale == 12
\* Leaf values of the regressor seen by the grid search: 0..MaxOut.
MaxOut == 1
\* Distinct argument tuples a caller passes to predict_power_output: 1..MaxArgs.
MaxArgs == 2
\* States of numpy's global generator: 0..RngMod - 1.
RngMod == 8
\* n_samples of a generate_synthetic_data call: 1..MaxSamples.
MaxSamples == 4
\* The default n_samples (5000 in the source, scaled down).
DefaultSamples == 3
\* A uniform draw is one of the fractions 0/UnitSteps .. UnitSteps/UnitSteps of its range.
UnitSteps == 1
\* A normal draw is at most MaxSigma standard deviations from its mean.
MaxSigma == 12

VARIABLES
    model,        \* self.model: the training run that fitted it, Unfitted if none
    scaler,       \* self.scaler: likewise
    modelFile,    \* solar_model.joblib
    scalerFile,   \* scaler.joblib
    nextRun,      \* the next training run's number
    ext,          \* the retrain command of another process: the run it is writing, 0 when idle
    faulted,      \* whether a training run of this program has failed at some time
    last,         \* the last call on ml_model and what it returned
    tree,         \* SpecOpt: the fitted regressor as a function of (tilt, azimuth)
    pc,           \* SpecOpt: position in find_optimal_configuration
    ti,           \* SpecOpt: index of the outer loop in tilt_range
    ai,           \* SpecOpt: index of the inner loop in azimuth_range
    best_output,
    best_tilt,
    best_azimuth,
    calls,        \* SpecOpt: number of predict_power_output calls made
    lastCall,     \* SpecOpt: the angle pair of the last call
    predIn,       \* SpecPredict: what the fitted model gives for the input
    predOut,      \* SpecPredict: the pair predict_power_output returns for it
    rep,          \* SpecRepeat: the latest prediction since the pair in memory was last set
    args,         \* SpecArgs: latitude ... panel_efficiency of the call
    weather_data, \* SpecArgs: the weather reading of the call, a dict
    forest,       \* SpecArgs: the fitted regressor as a function of the scaled features
    apc,          \* SpecArgs: how far the caller has got
    result,       \* SpecArgs: the pair predict_power_output returned
    optimum,      \* SpecArgs: the triple find_optimal_configuration returned
    record,       \* SpecArgs: the SolarPrediction row the caller stored
    rng,          \* SpecGen: the state of numpy's global generator
    dataset,      \* SpecGen: the dataset generate_synthetic_data last returned
    first,        \* SpecGen: the first dataset generated and the generator's state at that call
    again,        \* SpecGen: the last call repeated the first one's n_samples from another state
    trainedOn,    \* SpecGen: the number of examples the last training run generated
    cmd,          \* SpecGen: the options of the last retrain_model command
    draws,        \* SpecExample: what the generator gives for one example
    example,      \* SpecExample: the example made of them
    raisedAt,     \* SpecFailFast: the grid cell at which predict_power_output raised
    recommendation, \* SpecArgs: what RecommendOptimalView.post computed after the grid search
    net,          \* SpecWeather: the call's source and latitude, the API key, and what each request meets
    fetch,        \* SpecWeather: what get_weather_data returned and the requests it made
    th            \* SpecThreads, SpecReaders: each request thread's call on ml_model and its position

storeVars == <<model, scaler, modelFile, scalerFile, nextRun, ext, faulted, last>>
optVars == <<tree, pc, ti, ai, best_output, best_tilt, best_azimuth, calls, lastCall>>
predVars == <<predIn, predOut>>
argVars == <<args, weather_data, forest, apc, result, optimum, record>>
genVars == <<rng, dataset, first, again, trainedOn, cmd>>
exVars == <<draws, example>>
failVars == <<raisedAt>>
recVars == <<recommendation>>
wxVars == <<net, fetch>>
thVars == <<th>>
moreVars == <<failVars, recVars, wxVars, thVars>>
pureVars == <<argVars, genVars, exVars, moreVars>>
restOfArgs == <<storeVars, optVars, predVars, rep, genVars, exVars, moreVars>>
restOfGen == <<storeVars, optVars, predVars, rep, argVars, exVars, moreVars>>
restOfFail == <<storeVars, predVars, rep, argVars, genVars, exVars, recVars, wxVars, thVars>>
restOfRec == <<storeVars, optVars, predVars, rep, genVars, exVars, failVars, wxVars, thVars>>
restOfWx == <<storeVars, optVars, predVars, rep, argVars, genVars, exVars, failVars, recVars,
              thVars>>
restOfTh == <<ext, faulted, last, optVars, predVars, rep, argVars, genVars, exVars, failVars,
              recVars, wxVars>>
restOfEx == <<storeVars, optVars, predVars, rep, argVars, genVars, moreVars>>
vars == <<model, scaler, modelFile, scalerFile, nextRun, ext, faulted, last,
          tree, pc, ti, ai, best_output, best_tilt, best_azimuth, calls, lastCall,
          predIn, predOut, rep,
          args, weather_data, forest, apc, result, optimum, record,
          rng, dataset, first, again, trainedOn, cmd, draws, example,
          raisedAt, recommendation, net, fetch, th>>

\* ------------------------------------------------------------------ floats

\* A float: a finite number in fixed point, or nan, inf, -inf.
Num(v) == [k |-> "num", v |-> v]
NaN == [k |-> "nan", v |-> 0]
PosInf == [k |-> "inf", v |-> 0]
NegInf == [k |-> "ninf", v |-> 0]

\* x > y on floats: every comparison with nan is false.
FGt(x, y) ==
    CASE x.k = "nan" \/ y.k = "nan" -> FALSE
      [] x.k = "inf" -> y.k # "inf"
      [] x.k = "ninf" -> FALSE
      [] y.k = "inf" -> FALSE
      [] y.k = "ninf" -> TRUE
      [] OTHER -> x.v > y.v

FLt(x, y) == FGt(y, x)

\* The lower clamp left out: the value is passed through as it is.
PyMaxMissing(a, b) == b

\* Python's max(a, b): the first argument unless the second is greater.
PyMax(a, b) == IF FGt(b, a) THEN b ELSE a

\* Python's min(a, b): the first argument unless the second is smaller.
PyMin(a, b) == IF FLt(b, a) THEN b ELSE a

\* x / y on numpy floats: division by zero gives nan or an infinity, no exception.
FDiv(x, y) ==
    IF y.v = 0
    THEN (IF x.v = 0 THEN NaN ELSE IF x.v > 0 THEN PosInf ELSE NegInf)
    ELSE Num((x.v * Scale) \div y.v)

\* 1 - x
OneMinus(x) ==
    CASE x.k = "nan" -> NaN
      [] x.k = "inf" -> NegInf
      [] x.k = "ninf" -> PosInf
      [] OTHER -> Num(Scale - x.v)

RECURSIVE SumSeq(_)
SumSeq(s) == IF s = <<>> THEN 0 ELSE Head(s) + SumSeq(Tail(s))

\* The largest r in lo..hi with r * r <= n, by bisection (lo * lo <= n < (hi + 1) * (hi + 1)).
RECURSIVE IsqrtIn(_, _, _)
IsqrtIn(n, lo, hi) ==
    IF lo = hi THEN lo
    ELSE LET mid == (lo + hi + 1) \div 2
         IN IF mid * mid <= n THEN IsqrtIn(n, mid, hi) ELSE IsqrtIn(n, lo, mid - 1)

\* The square root of n >= 0, rounded down.
Isqrt(n) == IsqrtIn(n, 0, n)

\* np.mean of the per-tree predictions, in fixed point.
NpMean(ps) == Num((SumSeq(ps) * Scale) \div Len(ps))

\* np.std of the per-tree predictions (population standard deviation), in fixed point.
NpStd(ps) ==
    LET n == Len(ps)
        s == SumSeq(ps)
        q == n * SumSeq([i \in 1..n |-> ps[i] * ps[i]]) - s * s
    IN Num(Isqrt(q * Scale * Scale) \div n)

\* ------------------------------------------------------------------ the store

\* An estimator no training run has fitted: RandomForestRegressor(), StandardScaler().
Unfitted == 0

\* A persisted file: absent, unreadable, or the dump of an estimator fitted by run r.
Absent == [st |-> "absent", run |-> 0]
Corrupt == [st |-> "corrupt", run |-> 0]
Ok(r) == [st |-> "ok", run |-> r]

\* Where a training run can fail: nowhere, in model.fit, in either joblib.dump.
TrainFaults == {"none", "model_fit", "dump_model", "dump_scaler"}

\* The instance and its files as one record.
Store(m, s, mf, sf) == [model |-> m, scaler |-> s, modelFile |-> mf, scalerFile |-> sf]

\* A file whose joblib.dump failed: untouched (the open failed) or cut short.
FailedDump(file, partial) == IF partial THEN Corrupt ELSE file

\* train_model as run r: fits self.scaler, then self.model, both in place, then
\* dumps the model, then the scaler. A failure at f raises and leaves the rest undone.
TrainModelOn(s, r, f, partial) ==
    LET s1 == [s EXCEPT !.scaler = r]
        s2 == [s1 EXCEPT !.model = r]
        s3 == [s2 EXCEPT !.modelFile = Ok(r)]
        s4 == [s3 EXCEPT !.scalerFile = Ok(r)]
    IN CASE f = "model_fit" -> [st |-> s1, raised |-> TRUE]
         [] f = "dump_model" ->
              [st |-> [s2 EXCEPT !.modelFile = FailedDump(@, partial)], raised |-> TRUE]
         [] f = "dump_scaler" ->
              [st |-> [s3 EXCEPT !.scalerFile = FailedDump(@, partial)], raised |-> TRUE]
         [] OTHER -> [st |-> s4, raised |-> FALSE]

\* except Exception placed first: a missing file is logged and False returned.
LoadTrainsShadowed(s, r, f, partial) == [st |-> s, ret |-> "false", trained |-> FALSE]

\* The except FileNotFoundError branch of load_model: train, then return True.
LoadTrains(s, r, f, partial) ==
    LET t == TrainModelOn(s, r, f, partial)
    IN [st |-> t.st, ret |-> IF t.raised THEN "raise" ELSE "true", trained |-> TRUE]

\* load_model that retrains on every load error, not only on a missing file.
LoadModelAnyError(s, r, f, partial) ==
    IF s.modelFile.st # "ok" THEN LoadTrains(s, r, f, partial)
    ELSE LET s1 == [s EXCEPT !.model = s.modelFile.run]
         IN IF s.scalerFile.st # "ok" THEN LoadTrains(s1, r, f, partial)
            ELSE [st |-> [s1 EXCEPT !.scaler = s.scalerFile.run],
                  ret |-> "true", trained |-> FALSE]

\* load_model: self.model = joblib.load(model_path), then
\* self.scaler = joblib.load(scaler_path); FileNotFoundError trains, any other
\* exception returns False.
LoadModelOn(s, r, f, partial) ==
    IF s.modelFile.st = "absent" THEN LoadTrains(s, r, f, partial)
    ELSE IF s.modelFile.st = "corrupt" THEN [st |-> s, ret |-> "false", trained |-> FALSE]
    ELSE LET s1 == [s EXCEPT !.model = s.modelFile.run]
         IN IF s.scalerFile.st = "absent" THEN LoadTrains(s1, r, f, partial)
            ELSE IF s.scalerFile.st = "corrupt"
                 THEN [st |-> s1, ret |-> "false", trained |-> FALSE]
            ELSE [st |-> [s1 EXCEPT !.scaler = s.scalerFile.run],
                  ret |-> "true", trained |-> FALSE]

\* check_is_fitted(self.scaler) passes.
IsFitted(est) == est # Unfitted

\* The per-tree predictions a forest can give for an input.
TreePredictions == [1..NEstimators -> (0 - MaxRaw)..MaxRaw]

\* self.model.predict(input_scaled)[0] of a forest: the mean of its trees' predictions.
ForestPredict(ps) == NpMean(ps)

\* The confidence before clamping: 1 - std/mean of the per-tree predictions, or the
\* default 0.8 for a model without estimators_.
Confidence(has, ps) ==
    IF has
    THEN OneMinus(FDiv(NpStd(ps), NpMean(ps)))
    ELSE Num((8 * Scale) \div 10)

\* The pair predict_power_output returns: max(0, prediction), min(1.0, max(0.0, confidence)).
Returned(has, prediction, ps) ==
    [output |-> PyMax(Num(0), prediction),
     confidence |-> PyMin(Num(Scale), PyMax(Num(0), Confidence(has, ps)))]

\* Every pair a fitted forest can make predict_power_output return.
ForestResults == {Returned(TRUE, ForestPredict(ps), ps) : ps \in TreePredictions}

\* The result of a call that returned nothing to report.
NoValue == [output |-> NaN, confidence |-> NaN]

\* predict_power_output reloading whenever the files no longer hold the pair in memory.
PredictOnHotReload(s, r, f, partial) ==
    LET l == IF IsFitted(s.scaler) /\ s.modelFile = Ok(s.model) /\ s.scalerFile = Ok(s.scaler)
             THEN [st |-> s, ret |-> "none", trained |-> FALSE]
             ELSE LoadModelOn(s, r, f, partial)
        s1 == l.st
    IN IF l.ret = "raise" \/ ~IsFitted(s1.scaler) \/ ~IsFitted(s1.model)
       THEN [st |-> s1, ret |-> "raise", trained |-> l.trained, loaded |-> l.ret,
             used |-> <<Unfitted, Unfitted>>, values |-> {NoValue}]
       ELSE [st |-> s1, ret |-> "ok", trained |-> l.trained, loaded |-> l.ret,
             used |-> <<s1.scaler, s1.model>>, values |-> ForestResults]

\* predict_power_output without its check of the standardizer: load_model is called
\* on every prediction.
PredictOnAlwaysLoads(s, r, f, partial) ==
    LET l == LoadModelOn(s, r, f, partial)
        s1 == l.st
    IN IF l.ret = "raise" \/ ~IsFitted(s1.scaler) \/ ~IsFitted(s1.model)
       THEN [st |-> s1, ret |-> "raise", trained |-> l.trained, loaded |-> l.ret,
             used |-> <<Unfitted, Unfitted>>, values |-> {NoValue}]
       ELSE [st |-> s1, ret |-> "ok", trained |-> l.trained, loaded |-> l.ret,
             used |-> <<s1.scaler, s1.model>>, values |-> ForestResults]

\* predict_power_output: load_model if the scaler is not fitted (its return value
\* is dropped), then scaler.transform and model.predict, which raise NotFittedError
\* on an unfitted estimator. values: the pairs the call can return.
PredictOn(s, r, f, partial) ==
    LET l == IF IsFitted(s.scaler)
             THEN [st |-> s, ret |-> "none", trained |-> FALSE]
             ELSE LoadModelOn(s, r, f, partial)
        s1 == l.st
    IN IF l.ret = "raise" \/ ~IsFitted(s1.scaler) \/ ~IsFitted(s1.model)
       THEN [st |-> s1, ret |-> "raise", trained |-> l.trained, loaded |-> l.ret,
             used |-> <<Unfitted, Unfitted>>, values |-> {NoValue}]
       ELSE [st |-> s1, ret |-> "ok", trained |-> l.trained, loaded |-> l.ret,
             used |-> <<s1.scaler, s1.model>>, values |-> ForestResults]

\* ------------------------------------------------------------------ Spec: the calls

\* The instance and the files now.
Cur == Store(model, scaler, modelFile, scalerFile)

\* No call has been made since the process started or the files last changed under it.
NoCall ==
    [op |-> "none", ret |-> "none", trained |-> FALSE, loaded |-> "none", fault |-> "none",
     pre |-> Store(Unfitted, Unfitted, Absent, Absent),
     used |-> <<Unfitted, Unfitted>>, value |-> NoValue]

\* The instance and files after a call.
Becomes(s) ==
    /\ model' = s.model
    /\ scaler' = s.scaler
    /\ modelFile' = s.modelFile
    /\ scalerFile' = s.scalerFile

\* ml_model = SolarPowerMLModel() in a fresh process, no artifact persisted yet.
InitStore ==
    /\ model = Unfitted
    /\ scaler = Unfitted
    /\ modelFile = Absent
    /\ scalerFile = Absent
    /\ nextRun = 1
    /\ ext = 0
    /\ faulted = FALSE
    /\ last = NoCall

\* The failure (f, partial) is one this call can meet: none when it does not train,
\* and a dump cut short only when a dump fails.
FaultApplies(trains, f, partial) ==
    /\ ~trains => f = "none"
    /\ partial => f \in {"dump_model", "dump_scaler"}

\* A call of ml_model.train_model().
TrainModel ==
    \E f \in TrainFaults, partial \in BOOLEAN :
        LET t == TrainModelOn(Cur, nextRun, f, partial)
        IN /\ nextRun <= MaxRuns
           /\ FaultApplies(TRUE, f, partial)
           /\ Becomes(t.st)
           /\ nextRun' = nextRun + 1
           /\ faulted' = (faulted \/ t.raised)
           /\ last' = [NoCall EXCEPT !.op = "train",
                                     !.ret = IF t.raised THEN "raise" ELSE "ok",
                                     !.trained = TRUE, !.fault = f, !.pre = Cur]
           /\ UNCHANGED <<ext, optVars, predVars, pureVars>>

\* A call of ml_model.load_model().
LoadModel ==
    \E f \in TrainFaults, partial \in BOOLEAN :
        LET l == LoadModelOn(Cur, nextRun, f, partial)
        IN /\ l.trained => nextRun <= MaxRuns
           /\ FaultApplies(l.trained, f, partial)
           /\ Becomes(l.st)
           /\ nextRun' = IF l.trained THEN nextRun + 1 ELSE nextRun
           /\ faulted' = (faulted \/ l.ret = "raise")
           /\ last' = [NoCall EXCEPT !.op = "load", !.ret = l.ret, !.trained = l.trained,
                                     !.fault = f,
                                     !.pre = Cur]
           /\ UNCHANGED <<ext, optVars, predVars, pureVars>>

\* A call of ml_model.predict_power_output(...).
PredictPowerOutput ==
    \E f \in TrainFaults, partial \in BOOLEAN :
        LET p == PredictOn(Cur, nextRun, f, partial)
        IN /\ p.trained => nextRun <= MaxRuns
           /\ FaultApplies(p.trained, f, partial)
           /\ Becomes(p.st)
           /\ nextRun' = IF p.trained THEN nextRun + 1 ELSE nextRun
           /\ faulted' = (faulted \/ (p.trained /\ f # "none"))
           /\ \E v \in p.values :
                 last' = [NoCall EXCEPT !.op = "predict", !.ret = p.ret,
                                        !.trained = p.trained, !.loaded = p.loaded,
                                        !.fault = f, !.pre = Cur, !.used = p.used,
                                        !.value = v]
           /\ UNCHANGED <<ext, optVars, predVars, pureVars>>

\* The retrain_model command in another process: its train_model dumps the model ...
ExtDumpModel ==
    /\ ext = 0
    /\ nextRun <= MaxRuns
    /\ modelFile' = Ok(nextRun)
    /\ ext' = nextRun
    /\ nextRun' = nextRun + 1
    /\ last' = NoCall
    /\ UNCHANGED <<model, scaler, scalerFile, faulted, optVars, predVars, pureVars>>

\* ... and then the scaler.
ExtDumpScaler ==
    /\ ext # 0
    /\ scalerFile' = Ok(ext)
    /\ ext' = 0
    /\ last' = NoCall
    /\ UNCHANGED <<model, scaler, modelFile, nextRun, faulted, optVars, predVars, pureVars>>

\* A persisted file is damaged on disk.
CorruptFile ==
    /\ \/ modelFile.st = "ok" /\ modelFile' = Corrupt /\ UNCHANGED scalerFile
       \/ scalerFile.st = "ok" /\ scalerFile' = Corrupt /\ UNCHANGED modelFile
    /\ last' = NoCall
    /\ UNCHANGED <<model, scaler, nextRun, ext, faulted, optVars, predVars, pureVars>>

\* A persisted file is removed.
DeleteFile ==
    /\ \/ modelFile.st # "absent" /\ modelFile' = Absent /\ UNCHANGED scalerFile
       \/ scalerFile.st # "absent" /\ scalerFile' = Absent /\ UNCHANGED modelFile
    /\ last' = NoCall
    /\ UNCHANGED <<model, scaler, nextRun, ext, faulted, optVars, predVars, pureVars>>

\* The process restarts: the module is imported again and ml_model constructed anew.
Restart ==
    /\ model' = Unfitted
    /\ scaler' = Unfitted
    /\ last' = NoCall
    /\ UNCHANGED <<modelFile, scalerFile, nextRun, ext, faulted, optVars, predVars, pureVars>>

\* ------------------------------------------------------------------ the grid search

\* Python's range(start, stop, step) for step > 0, as a sequence.
Range(start, stop, step) ==
    [k \in 1..((stop - start + step - 1) \div step) |-> start + (k - 1) * step]

\* range(0, 60, 5): the stop is one short and 60 is never tried.
tilt_range_short == Range(0, 60, 5)

tilt_range == Range(0, 61, 5)

\* range(0, 360, 15): 360 is never tried.
azimuth_range_short == Range(0, 360, 15)

azimuth_range == Range(0, 361, 15)

\* A local of find_optimal_configuration that is not bound yet.
Unbound == -1

\* The fitted regressor for the call's fixed location, panel and weather, as the
\* piecewise-constant function of (tilt, azimuth) a regression tree is: one split
\* on each angle, four leaves.
Trees ==
    [tt : {5 * k : k \in 0..11}, ta : {15 * k : k \in 0..23},
     ll : 0..MaxOut, lr : 0..MaxOut, ul : 0..MaxOut, ur : 0..MaxOut]

\* The output predict_power_output returns for (tilt, azimuth): max(0, prediction).
PredictOutputAt(tr, tilt, azimuth) ==
    IF tilt <= tr.tt
    THEN (IF azimuth <= tr.ta THEN tr.ll ELSE tr.lr)
    ELSE (IF azimuth <= tr.ta THEN tr.ul ELSE tr.ur)

\* if output >= best_output: a later equal candidate replaces the best.
BetterOrEqual(output, best) == output >= best

\* if output < best_output: the comparison turned round.
Worse(output, best) == output < best

\* if output > best_output
Better(output, best) == output > best

InitOpt ==
    /\ tree \in Trees
    /\ pc = "call"
    /\ ti = 1
    /\ ai = 1
    /\ best_output = Unbound
    /\ best_tilt = Unbound
    /\ best_azimuth = Unbound
    /\ calls = 0
    /\ lastCall = <<Unbound, Unbound>>

\* best_output = -1 as the start, so that any output replaces it.
OptStartBelowZero ==
    /\ pc = "call"
    /\ best_output' = -1
    /\ best_tilt' = 0
    /\ best_azimuth' = 0
    /\ ti' = 1
    /\ ai' = 1
    /\ pc' = "loop"
    /\ UNCHANGED <<tree, calls, lastCall, storeVars, predVars, rep, pureVars>>

\* best_output = 0; best_tilt = 0; best_azimuth = 0, and the two ranges.
OptStart ==
    /\ pc = "call"
    /\ best_output' = 0
    /\ best_tilt' = 0
    /\ best_azimuth' = 0
    /\ ti' = 1
    /\ ai' = 1
    /\ pc' = IF Len(tilt_range) = 0 \/ Len(azimuth_range) = 0 THEN "return" ELSE "loop"
    /\ UNCHANGED <<tree, calls, lastCall, storeVars, predVars, rep, pureVars>>

\* One pass of the inner loop body: the predict_power_output call for
\* (tilt, azimuth), the comparison, and the step to the next pair.
OptStep ==
    /\ pc = "loop"
    /\ LET tilt == tilt_range[ti]
           azimuth == azimuth_range[ai]
           output == PredictOutputAt(tree, tilt, azimuth)
       IN /\ calls' = calls + 1
          /\ lastCall' = <<tilt, azimuth>>
          /\ IF Better(output, best_output)
             THEN /\ best_output' = output
                  /\ best_tilt' = tilt
                  /\ best_azimuth' = azimuth
             ELSE UNCHANGED <<best_output, best_tilt, best_azimuth>>
    /\ IF ai < Len(azimuth_range)
       THEN ai' = ai + 1 /\ UNCHANGED <<ti, pc>>
       ELSE /\ ai' = 1
            /\ IF ti < Len(tilt_range)
               THEN ti' = ti + 1 /\ UNCHANGED pc
               ELSE pc' = "return" /\ UNCHANGED ti
    /\ UNCHANGED <<tree, storeVars, predVars, rep, pureVars>>

\* return best_tilt, best_azimuth, best_output
OptReturn ==
    /\ pc = "return"
    /\ pc' = "done"
    /\ UNCHANGED <<tree, ti, ai, best_output, best_tilt, best_azimuth, calls, lastCall,
                   storeVars, predVars, rep, pureVars>>

\* ------------------------------------------------------------------ the arithmetic

\* What a fitted model can give for an input: a forest (has estimators_) its trees'
\* predictions and their mean, any other regressor a prediction and no trees.
ModelAnswers ==
    {[has |-> TRUE, prediction |-> ForestPredict(ps), ps |-> ps] : ps \in TreePredictions}
    \cup {[has |-> FALSE, prediction |-> Num(r * Scale), ps |-> <<>>] :
             r \in (0 - MaxRaw)..MaxRaw}

\* No input yet.
PredIdle ==
    /\ predIn = [has |-> FALSE, prediction |-> NaN, ps |-> <<>>]
    /\ predOut = NoValue

InitPredict ==
    /\ predIn \in ModelAnswers
    /\ predOut = NoValue

\* The tail of predict_power_output: from the prediction to the returned pair.
PredictReturn ==
    /\ predOut = NoValue
    /\ predOut' = Returned(predIn.has, predIn.prediction, predIn.ps)
    /\ UNCHANGED <<predIn, storeVars, optVars, rep, pureVars>>

\* ------------------------------------------------------------------ repeated predictions

\* No prediction has returned since the pair in memory was last set.
NoRep == [x |-> 0, used |-> <<Unfitted, Unfitted>>, value |-> NoValue, n |-> 0]

RepIdle == rep = NoRep

\* scaler.transform, model.predict and the trees' predict compute functions of the
\* fitted pair and the input: the pair and the arguments of the latest prediction
\* give the value of the latest prediction again.
FittedPairIsFunction(x, used, value) ==
    (rep # NoRep /\ rep.x = x /\ rep.used = used) => value = rep.value

\* predict_power_output called with the argument tuple x.
PredictArgs ==
    /\ PredictPowerOutput
    /\ \E x \in 1..MaxArgs :
          /\ last'.ret = "ok" => FittedPairIsFunction(x, last'.used, last'.value)
          /\ rep' = IF last'.ret = "ok"
                    THEN [x |-> x, used |-> last'.used, value |-> last'.value,
                          n |-> IF rep.x = x THEN 2 ELSE 1]
                    ELSE NoRep

\* ------------------------------------------------------------------ the call's arguments

\* The keys predict_power_output reads from weather_data.
WeatherKeys == {"solar_irradiance", "temperature", "humidity", "wind_speed", "cloud_cover"}

\* The source tags the weather service puts into a reading.
Sources == {"mock_data", "openweathermap", "nasa_power"}

\* dict.get(key, default)
Get(d, key, default) == IF key \in DOMAIN d THEN d[key] ELSE default

\* A default of 0 for every key.
WeatherDefaultZero(key) == 0

\* The default of weather_data.get(key, default) for each key.
WeatherDefault(key) ==
    CASE key = "solar_irradiance" -> 5
      [] key = "temperature" -> 25
      [] key = "humidity" -> 50
      [] key = "wind_speed" -> 5
      [] key = "cloud_cover" -> 30

\* The frame with the cloud cover of a mock reading replaced by the default.
InputDataBySource(a, w) ==
    <<a.latitude, a.longitude, a.surface_area, a.tilt_angle, a.azimuth_angle,
      a.panel_efficiency,
      Get(w, "solar_irradiance", WeatherDefault("solar_irradiance")),
      Get(w, "temperature", WeatherDefault("temperature")),
      Get(w, "humidity", WeatherDefault("humidity")),
      Get(w, "wind_speed", WeatherDefault("wind_speed")),
      IF Get(w, "source", "none") = "mock_data"
      THEN WeatherDefault("cloud_cover")
      ELSE Get(w, "cloud_cover", WeatherDefault("cloud_cover"))>>

\* input_data: the one-row frame of the 11 features, in column order. Degrees, square
\* metres, per cent (panel_efficiency 20 is 0.20) and the weather units, as integers.
InputData(a, w) ==
    <<a.latitude, a.longitude, a.surface_area, a.tilt_angle, a.azimuth_angle,
      a.panel_efficiency,
      Get(w, "solar_irradiance", WeatherDefault("solar_irradiance")),
      Get(w, "temperature", WeatherDefault("temperature")),
      Get(w, "humidity", WeatherDefault("humidity")),
      Get(w, "wind_speed", WeatherDefault("wind_speed")),
      Get(w, "cloud_cover", WeatherDefault("cloud_cover"))>>

\* The fitted standardizer's mean_ per column: the centres of the ranges the training
\* data is drawn from (its scale_ taken as 1).
FittedMean == <<0, 0, 55, 30, 180, 20, 5, 17, 55, 10, 50>>

\* self.scaler.transform(input_data)
Transform(x) == [i \in DOMAIN x |-> x[i] - FittedMean[i]]

\* The fitted forests: every tree splits the column feat at the column's mean, and
\* its leaves lie base above the lowest leaf of a forest that predicts no loss.
Forests == [feat : DOMAIN FittedMean, base : {0 - 1, 0}]

\* tree.predict(input_scaled)[0] of the i-th tree.
TreePredict(f, i, xs) ==
    IF xs[f.feat] <= 0
    THEN f.base + ((i - 1) % (MaxRaw + 1))
    ELSE f.base + (MaxRaw - ((i - 1) % (MaxRaw + 1)))

\* What predict_power_output returns for the arguments a and the reading w from the
\* fitted pair.
PredictValue(a, w, f) ==
    LET input_scaled == Transform(InputData(a, w))
        predictions == [i \in 1..NEstimators |-> TreePredict(f, i, input_scaled)]
    IN Returned(TRUE, ForestPredict(predictions), predictions)

\* The inner loop of find_optimal_configuration from the j-th azimuth on.
RECURSIVE AzimuthLoop(_, _, _, _, _, _)
AzimuthLoop(j, tilt, best, a, w, f) ==
    IF j > Len(azimuth_range) THEN best
    ELSE LET azimuth == azimuth_range[j]
             at == [a EXCEPT !.tilt_angle = tilt, !.azimuth_angle = azimuth]
             output == PredictValue(at, w, f).output.v
         IN IF Better(output, best.output)
            THEN AzimuthLoop(j + 1, tilt,
                             [tilt |-> tilt, azimuth |-> azimuth, output |-> output],
                             a, w, f)
            ELSE AzimuthLoop(j + 1, tilt, best, a, w, f)

\* The outer loop from the i-th tilt on.
RECURSIVE TiltLoop(_, _, _, _, _)
TiltLoop(i, best, a, w, f) ==
    IF i > Len(tilt_range) THEN best
    ELSE TiltLoop(i + 1, AzimuthLoop(1, tilt_range[i], best, a, w, f), a, w, f)

\* What find_optimal_configuration returns: best_tilt, best_azimuth, best_output.
FindOptimalOn(a, w, f) == TiltLoop(1, [tilt |-> 0, azimuth |-> 0, output |-> 0], a, w, f)

\* x * n for a float x and an integer n.
FMulInt(x, n) == IF x.k = "num" THEN Num(x.v * n) ELSE x

\* Weekly and monthly the wrong way round.
AdjustSwapped(predicted_output, timeframe) ==
    IF timeframe = "weekly" THEN FMulInt(predicted_output, 30)
    ELSE IF timeframe = "monthly" THEN FMulInt(predicted_output, 7)
    ELSE predicted_output

\* PredictPowerView.post: if timeframe == 'weekly': predicted_output *= 7
\* elif timeframe == 'monthly': predicted_output *= 30
ViewAdjust(predicted_output, timeframe) ==
    IF timeframe = "weekly" THEN FMulInt(predicted_output, 7)
    ELSE IF timeframe = "monthly" THEN FMulInt(predicted_output, 30)
    ELSE predicted_output

\* The same lines of the setup_initial_data command.
CommandAdjust(predicted_output, timeframe) ==
    IF timeframe = "weekly" THEN FMulInt(predicted_output, 7)
    ELSE IF timeframe = "monthly" THEN FMulInt(predicted_output, 30)
    ELSE predicted_output

\* timeframe: the serializer's choices, the command's random.choice.
Timeframes == {"daily", "weekly", "monthly"}

\* Readings of the weather other than the defaults, one per key.
Reading(key) ==
    CASE key = "solar_irradiance" -> 8
      [] key = "temperature" -> 0
      [] key = "humidity" -> 90
      [] key = "wind_speed" -> 15
      [] key = "cloud_cover" -> 80

\* The weather dicts of the calls: any of the keys present and no source, or a
\* reading as the weather service returns it, every key present and a source, or
\* nothing but a source.
WeatherDicts ==
    LET readings == {[k \in D |-> Reading(k)] : D \in SUBSET WeatherKeys}
    IN readings \cup {r @@ ("source" :> src) :
                         r \in {[k \in D |-> Reading(k)] : D \in {WeatherKeys, {}}},
                         src \in Sources}

\* The location and panel of the calls.
ArgTuples ==
    [latitude : {52}, longitude : {13}, surface_area : {50},
     tilt_angle : {30}, azimuth_angle : {180}, panel_efficiency : {20}]

NoOptimum == [tilt |-> Unbound, azimuth |-> Unbound, output |-> Unbound]

NoRecord == [by |-> "none", timeframe |-> "none", predicted_output |-> NaN,
             confidence_score |-> NaN]

ArgsIdle ==
    /\ args = [latitude |-> 0, longitude |-> 0, surface_area |-> 0,
               tilt_angle |-> 0, azimuth_angle |-> 0, panel_efficiency |-> 0]
    /\ weather_data = <<>>
    /\ forest = [feat |-> 1, base |-> 0]
    /\ apc = "idle"
    /\ result = NoValue
    /\ optimum = NoOptimum
    /\ record = NoRecord

InitArgs ==
    /\ args \in ArgTuples
    /\ weather_data \in WeatherDicts
    /\ forest \in Forests
    /\ apc = "call"
    /\ result = NoValue
    /\ optimum = NoOptimum
    /\ record = NoRecord

\* ml_model.predict_power_output(..., weather_data=weather_data) with a fitted pair.
PredictCall ==
    /\ apc = "call"
    /\ result' = PredictValue(args, weather_data, forest)
    /\ apc' = "predicted"
    /\ UNCHANGED <<args, weather_data, forest, optimum, record, restOfArgs>>

\* PredictPowerView.post after the prediction: the adjustment and the row it creates.
PredictPowerViewPost ==
    /\ apc = "predicted"
    /\ \E timeframe \in Timeframes :
          record' = [by |-> "view", timeframe |-> timeframe,
                     predicted_output |-> ViewAdjust(result.output, timeframe),
                     confidence_score |-> result.confidence]
    /\ apc' = "stored"
    /\ UNCHANGED <<args, weather_data, forest, result, optimum, restOfArgs>>

\* The setup_initial_data command after the prediction.
SetupInitialData ==
    /\ apc = "predicted"
    /\ \E timeframe \in Timeframes :
          record' = [by |-> "command", timeframe |-> timeframe,
                     predicted_output |-> CommandAdjust(result.output, timeframe),
                     confidence_score |-> result.confidence]
    /\ apc' = "stored"
    /\ UNCHANGED <<args, weather_data, forest, result, optimum, restOfArgs>>

\* ml_model.find_optimal_configuration(..., weather_data=weather_data).
FindOptimalConfiguration ==
    /\ apc = "call"
    /\ optimum' = FindOptimalOn(args, weather_data, forest)
    /\ apc' = "optimized"
    /\ UNCHANGED <<args, weather_data, forest, result, record, restOfArgs>>

\* The current_tilt and current_azimuth a request to RecommendOptimalView can carry
\* (both optional; 0..90 and 0..360 by the serializer).
CurrentConfigs ==
    {[k \in D |-> v[k]] :
        D \in SUBSET {"current_tilt", "current_azimuth"},
        v \in [current_tilt : {0, 32, 60}, current_azimuth : {100, 195}]}

\* No recommendation computed.
NoRecommendation ==
    [current_tilt |-> Unbound, current_azimuth |-> Unbound, current_output |-> Unbound,
     improvement_percentage |-> 0, divided |-> FALSE]

RecIdle == recommendation = NoRecommendation

\* (current_output - max_output) / current_output: the difference the wrong way round.
ImprovementSwapped(max_output, current_output) ==
    IF current_output > 0
    THEN [pct |-> (((current_output - max_output) * Scale) \div current_output) * 100,
          divided |-> TRUE]
    ELSE [pct |-> 0, divided |-> FALSE]

\* if current_output > 0:
\*     improvement_percentage = ((max_output - current_output) / current_output) * 100
\* else: improvement_percentage = 0.0
\* pct is in 1/Scale per cent; divided tells whether the division was evaluated.
ImprovementOf(max_output, current_output) ==
    IF current_output > 0
    THEN [pct |-> (((max_output - current_output) * Scale) \div current_output) * 100,
          divided |-> TRUE]
    ELSE [pct |-> 0, divided |-> FALSE]

\* RecommendOptimalView.post after the grid search: the current configuration from
\* the request or the defaults 30 / 180, its prediction with the same reading and
\* the same pair, and the improvement.
RecommendOptimalViewPost ==
    /\ apc = "optimized"
    /\ \E data \in CurrentConfigs :
          LET current_tilt == Get(data, "current_tilt", 30)
              current_azimuth == Get(data, "current_azimuth", 180)
              at == [args EXCEPT !.tilt_angle = current_tilt,
                                 !.azimuth_angle = current_azimuth]
              current_output == PredictValue(at, weather_data, forest).output.v
              imp == ImprovementOf(optimum.output, current_output)
          IN recommendation' =
                [current_tilt |-> current_tilt, current_azimuth |-> current_azimuth,
                 current_output |-> current_output,
                 improvement_percentage |-> imp.pct, divided |-> imp.divided]
    /\ apc' = "recommended"
    /\ UNCHANGED <<args, weather_data, forest, result, optimum, record, restOfRec>>

\* ------------------------------------------------------------------ the training data

Abs(x) == IF x < 0 THEN 0 - x ELSE x

\* np.random.uniform(low, high) for the draw k / den of the generator.
Uniform(low, high, k, den) == low + ((high - low) * k) \div den

\* np.cos(np.radians(d)) in thousandths, for 0 <= d <= 90 (Bhaskara's approximation).
CosMilli(d) == (4000 * (90 - d) * (90 + d)) \div (40500 - (90 - d) * (90 + d))

\* base_power of an example, in units of 1/500 kWh: surface_area * irradiance_factor *
\* temp_factor * tilt_factor * cloud_factor * efficiency_factor.
BasePower(e) ==
    LET panel == e.surface_area * e.solar_irradiance * e.panel_efficiency
        warm == (panel * (100 - Abs(e.temperature - 25))) \div 100
        tilted == (warm * CosMilli(Abs(e.tilt_angle - Abs(e.latitude)))) \div 1000
    IN (tilted * (100 - e.cloud_cover)) \div 100

\* The sum as it is, without the clamp.
PowerOutputUnclamped(base_power, noise) == base_power + noise

\* max(0, base_power + noise)
PowerOutput(base_power, noise) ==
    IF base_power + noise > 0 THEN base_power + noise ELSE 0

\* np.random.normal(0, scale) raised ValueError (scale < 0): no example.
NoExample == [raised |-> TRUE]

\* One pass of the loop body: the example made of eleven uniform draws u[i] / den and
\* a normal draw of z standard deviations. Degrees, square metres, per cent
\* (panel_efficiency 15 is 0.15) and the weather units, as integers.
ExampleOf(u, z, den) ==
    LET e == [latitude |-> Uniform(-60, 60, u[1], den),
              longitude |-> Uniform(-180, 180, u[2], den),
              surface_area |-> Uniform(10, 100, u[3], den),
              tilt_angle |-> Uniform(0, 60, u[4], den),
              azimuth_angle |-> Uniform(0, 360, u[5], den),
              panel_efficiency |-> Uniform(15, 25, u[6], den),
              solar_irradiance |-> Uniform(2, 8, u[7], den),
              temperature |-> Uniform(-10, 45, u[8], den),
              humidity |-> Uniform(20, 90, u[9], den),
              wind_speed |-> Uniform(0, 20, u[10], den),
              cloud_cover |-> Uniform(0, 100, u[11], den)]
        base_power == BasePower(e)
        noise == (base_power * z) \div 10
    IN IF base_power < 0
       THEN NoExample
       ELSE [k \in DOMAIN e \cup {"power_output"} |->
                IF k = "power_output" THEN PowerOutput(base_power, noise) ELSE e[k]]

\* Draws of the generator per example: eleven uniform, one normal.
DrawsPerExample == 12

\* The generator's next state, which is also what the draw returns.
Step(s) == (5 * s + 3) % RngMod

\* The next k draws from state s, in order.
RECURSIVE Stream(_, _)
Stream(s, k) == IF k = 0 THEN <<>> ELSE <<Step(s)>> \o Stream(Step(s), k - 1)

\* The generator left in the state it is in: seeded once, not in every call.
SeedKept(s) == s

\* np.random.seed(42)
Seed(s) == 42 % RngMod

\* The number of standard deviations of a normal draw.
Sigmas(d) == d - RngMod \div 2

NoData == [n |-> 0, rows |-> <<>>]

\* generate_synthetic_data(n_samples) called with the generator in state s: the
\* dataset and the state the generator is left in.
GenerateOn(s, n_samples) ==
    LET stream == Stream(Seed(s), n_samples * DrawsPerExample)
        at(k, i) == stream[(k - 1) * DrawsPerExample + i]
    IN [data |-> [n |-> n_samples,
                  rows |-> [k \in 1..n_samples |->
                               ExampleOf([i \in 1..(DrawsPerExample - 1) |-> at(k, i)],
                                         Sigmas(at(k, DrawsPerExample)), RngMod)]],
        rng |-> stream[Len(stream)]]

NoFirst == [data |-> NoData, at |-> -1]

NoCmd == [samples |-> 0, force |-> FALSE]

GenIdle ==
    /\ rng = 0
    /\ dataset = NoData
    /\ first = NoFirst
    /\ again = FALSE
    /\ trainedOn = 0
    /\ cmd = NoCmd

\* A process starts with the generator in any state.
InitGen ==
    /\ rng \in 0..(RngMod - 1)
    /\ dataset = NoData
    /\ first = NoFirst
    /\ again = FALSE
    /\ trainedOn = 0
    /\ cmd = NoCmd

\* What a call generate_synthetic_data(n_samples) does to the generator and returns.
GenCall(n_samples) ==
    LET g == GenerateOn(rng, n_samples)
    IN /\ rng' = g.rng
       /\ dataset' = g.data
       /\ first' = IF first = NoFirst THEN [data |-> g.data, at |-> rng] ELSE first
       /\ again' = (first # NoFirst /\ first.data.n = n_samples /\ first.at # rng)

\* generate_synthetic_data(n_samples) called for itself.
GenerateSyntheticData ==
    /\ \E n_samples \in 1..MaxSamples : GenCall(n_samples)
    /\ UNCHANGED <<trainedOn, cmd, restOfGen>>

\* train_model(retrain): df = self.generate_synthetic_data(), then the fit on df.
TrainOnData(retrain) ==
    /\ GenCall(DefaultSamples)
    /\ trainedOn' = Len(dataset'.rows)

\* train_model() called for itself (by load_model, say).
TrainModelData ==
    /\ TrainOnData(FALSE)
    /\ cmd' = NoCmd
    /\ UNCHANGED restOfGen

\* manage.py retrain_model [--force] [--samples N].
RetrainCommand ==
    /\ \E samples \in 1..MaxSamples, force \in BOOLEAN :
          /\ cmd' = [samples |-> samples, force |-> force]
          /\ TrainOnData(force)
    /\ UNCHANGED restOfGen

\* Any other draw from numpy's global generator in the process.
NumpyDraw ==
    /\ rng' = Step(rng)
    /\ UNCHANGED <<dataset, first, again, trainedOn, cmd, restOfGen>>

\* The normal draws of SpecExample, in standard deviations.
SigmaDraws == {0 - MaxSigma, -1, 0, 1, MaxSigma}

NoDraws == [u |-> <<>>, z |-> 0]

\* The loop body has not run yet.
NotMade == [made |-> FALSE]

ExIdle ==
    /\ draws = NoDraws
    /\ example = NotMade

InitExample ==
    /\ draws \in [u : [1..(DrawsPerExample - 1) -> 0..UnitSteps], z : SigmaDraws]
    /\ example = NotMade

\* One pass of generate_synthetic_data's loop body.
MakeExample ==
    /\ example = NotMade
    /\ example' = ExampleOf(draws.u, draws.z, UnitSteps)
    /\ UNCHANGED <<draws, restOfEx>>

\* ------------------------------------------------------------------ the weather service

\* The readings' units: solar_irradiance in tenths of kWh/m2/day, temperature in
\* tenths of a degree, wind_speed in tenths of m/s, humidity and cloud_cover in per cent.

\* get_mock_weather_data with the draws u of random.uniform, one per field.
GetMockWeatherData(latitude, u) ==
    LET base_temp == 250 - 5 * Abs(latitude)
    IN [solar_irradiance |-> Uniform(30, 75, u["solar_irradiance"], UnitSteps),
        temperature |-> base_temp + Uniform(0 - 100, 150, u["temperature"], UnitSteps),
        humidity |-> Uniform(30, 80, u["humidity"], UnitSteps),
        wind_speed |-> Uniform(10, 150, u["wind_speed"], UnitSteps),
        cloud_cover |-> Uniform(10, 70, u["cloud_cover"], UnitSteps),
        source |-> "mock_data"]

\* _estimate_solar_irradiance: 6.0 * (1 - cloud_cover / 100 * 0.8), at least 1.0.
EstimateSolarIrradiance(data) ==
    LET irradiance == 60 - ((60 * 8 * data.clouds) \div 1000)
    IN IF irradiance > 10 THEN irradiance ELSE 10

\* _estimate_cloud_cover: 50 without a positive clear-sky radiation, else
\* (1 - all_sky / clear_sky) * 100 within 0..100.
EstimateCloudCover(all_sky_radiation, clear_sky_radiation) ==
    IF clear_sky_radiation <= 0 THEN 50
    ELSE LET cloud_cover ==
                 ((clear_sky_radiation - all_sky_radiation) * 100) \div clear_sky_radiation
             capped == IF cloud_cover < 100 THEN cloud_cover ELSE 100
         IN IF capped > 0 THEN capped ELSE 0

\* The dict get_openweather_data makes of a response.
OpenweatherReading(data) ==
    [solar_irradiance |-> EstimateSolarIrradiance(data),
     temperature |-> data.temp,
     humidity |-> data.humidity,
     wind_speed |-> data.speed,
     cloud_cover |-> data.clouds,
     source |-> "openweathermap"]

\* The dict get_nasa_power_data makes of the latest day of a response.
NasaReading(properties) ==
    [solar_irradiance |-> properties.ALLSKY_SFC_SW_DWN,
     temperature |-> properties.T2M,
     humidity |-> properties.RH2M,
     wind_speed |-> properties.WS10M,
     cloud_cover |-> EstimateCloudCover(properties.ALLSKY_SFC_SW_DWN,
                                        properties.CLRSKY_SFC_SW_DWN),
     source |-> "nasa_power"]

\* Nothing returned.
NoReading == [source |-> "none"]

\* A call under way: the requests sent so far, in order, and the providers whose
\* response has been made into a reading.
NoRequests == [asked |-> <<>>, got |-> {}]

\* The number of requests to OpenWeatherMap among those sent.
AskedOpenweather(asked) == Cardinality({i \in DOMAIN asked : asked[i] = "openweathermap"})

\* get_openweather_data: mock data without an API key; else one request, its response
\* made into a reading, mock data on requests.RequestException, and any other
\* exception (a response without the expected keys) leaving the function.
GetOpenweatherData(n, st, u) ==
    IF ~n.key
    THEN [ret |-> "ok", data |-> GetMockWeatherData(n.latitude, u),
          asked |-> st.asked, got |-> st.got]
    ELSE LET outcome == n.ow[AskedOpenweather(st.asked) + 1]
             asked == Append(st.asked, "openweathermap")
         IN CASE outcome = "ok" ->
                   [ret |-> "ok", data |-> OpenweatherReading(n.owData),
                    asked |-> asked, got |-> st.got \cup {"openweathermap"}]
              [] outcome = "request_error" ->
                   [ret |-> "ok", data |-> GetMockWeatherData(n.latitude, u),
                    asked |-> asked, got |-> st.got]
              [] OTHER ->
                   [ret |-> "raise", data |-> NoReading, asked |-> asked, got |-> st.got]

\* get_nasa_power_data: one request, its response made into a reading, and
\* get_openweather_data on any exception.
GetNasaPowerData(n, st, u) ==
    LET asked == Append(st.asked, "nasa_power")
    IN IF n.nasa = "ok"
       THEN [ret |-> "ok", data |-> NasaReading(n.nasaData),
             asked |-> asked, got |-> st.got \cup {"nasa_power"}]
       ELSE GetOpenweatherData(n, [asked |-> asked, got |-> st.got], u)

\* get_weather_data with NASA POWER asked first in auto mode.
GetWeatherDataNasaFirst(n, u) ==
    IF n.source = "openweather" THEN GetOpenweatherData(n, NoRequests, u)
    ELSE IF n.source = "nasa" THEN GetNasaPowerData(n, NoRequests, u)
    ELSE IF n.source = "mock"
    THEN [ret |-> "ok", data |-> GetMockWeatherData(n.latitude, u), asked |-> <<>>, got |-> {}]
    ELSE GetNasaPowerData(n, NoRequests, u)

\* get_weather_data(latitude, longitude, source)
GetWeatherDataOn(n, u) ==
    IF n.source = "openweather" THEN GetOpenweatherData(n, NoRequests, u)
    ELSE IF n.source = "nasa" THEN GetNasaPowerData(n, NoRequests, u)
    ELSE IF n.source = "mock"
    THEN [ret |-> "ok", data |-> GetMockWeatherData(n.latitude, u), asked |-> <<>>, got |-> {}]
    ELSE LET first_try == GetOpenweatherData(n, NoRequests, u)
         IN IF first_try.ret = "raise" THEN first_try
            ELSE IF first_try.data.source = "mock_data"
            THEN LET second == GetNasaPowerData(n, first_try, u)
                 IN IF second.ret = "raise" THEN second
                    ELSE IF second.data.source = "openweathermap"
                    THEN [second EXCEPT !.data = GetMockWeatherData(n.latitude, u)]
                    ELSE second
            ELSE first_try

\* What a request to OpenWeatherMap can meet.
OwOutcomes == {"ok", "request_error", "malformed"}

\* What the request to NASA POWER can meet.
NasaOutcomes == {"ok", "error"}

\* The calls: the source argument, a latitude, whether OPENWEATHER_API_KEY is set,
\* what the first and the second request to OpenWeatherMap and the request to NASA
\* POWER meet, and the values the providers answer with.
Nets ==
    [source : {"auto", "openweather", "nasa", "mock"},
     latitude : {0 - 34, 52},
     key : BOOLEAN,
     ow : [1..2 -> OwOutcomes],
     nasa : NasaOutcomes,
     owData : [temp : {180}, humidity : {40}, speed : {35}, clouds : {0, 100}],
     nasaData : [ALLSKY_SFC_SW_DWN : {0 - 999, 45}, CLRSKY_SFC_SW_DWN : {0 - 999, 60},
                 T2M : {121}, RH2M : {70}, WS10M : {42}]]

\* No call made.
NoFetch == [ret |-> "none", data |-> NoReading, asked |-> <<>>, got |-> {}]

WxIdle ==
    /\ net = [source |-> "none"]
    /\ fetch = NoFetch

InitWx ==
    /\ net \in Nets
    /\ fetch = NoFetch

\* weather_service.get_weather_data(latitude, longitude, source)
GetWeatherData ==
    /\ fetch.ret = "none"
    /\ \E u \in [WeatherKeys -> 0..UnitSteps] : fetch' = GetWeatherDataOn(net, u)
    /\ UNCHANGED <<net, restOfWx>>

\* ------------------------------------------------------------------ request threads

\* The threads of the server process that call the shared ml_model.
Threads == {"t1", "t2", "t3"}

\* The threads that also call load_model and train_model.
Workers == {"t1", "t2"}

\* An estimator in the middle of an in-place fit: StandardScaler.fit has reset its
\* statistics, RandomForestRegressor.fit has emptied estimators_.
Refitting == 0 - 2

\* A thread that has made no call.
IdleThread ==
    [op |-> "none", pc |-> "idle", ret |-> "none", run |-> 0, trained |-> FALSE,
     pre |-> Store(Unfitted, Unfitted, Absent, Absent),
     used |-> <<Unfitted, Unfitted, Unfitted>>]

ThIdle == th = [t \in Threads |-> IdleThread]

\* One outcome of a step: the instance and files, the thread, the next run's number.
Outcome(s, c, r) == [st |-> s, c |-> c, r |-> r]

\* The call returns or raises.
Finish(c, ret) == [c EXCEPT !.pc = "done", !.ret = ret]

\* load_model has returned ret: predict_power_output drops it and goes on to build
\* and scale its input; a load_model call of its own returns it.
AfterLoad(c, ret) ==
    IF c.op = "predict" THEN [c EXCEPT !.pc = "transform"] ELSE Finish(c, ret)

\* train_model has returned: to its caller, or to load_model, which returns True.
AfterTrain(c) == IF c.op = "train" THEN Finish(c, "ok") ELSE AfterLoad(c, "true")

\* train_model starts: the data of run r is generated and split.
EnterTrain(s, c, r) ==
    IF r <= MaxRuns
    THEN {Outcome(s, [c EXCEPT !.pc = "fit_scaler", !.run = r, !.trained = TRUE], r + 1)}
    ELSE {}

\* predict_power_output with no check of the standardizer: load_model every time.
CheckAlwaysLoads(s, c, r) == {Outcome(s, [c EXCEPT !.pc = "load_model"], r)}

\* try: check_is_fitted(self.scaler) except Exception: self.load_model(). A scaler in
\* the middle of its fit has none or some of its statistics: the check fails or passes.
Check(s, c, r) ==
    {Outcome(s, [c EXCEPT !.pc = "load_model"], r) : x \in {1} \cap
        (IF s.scaler \in {Unfitted, Refitting} THEN {1} ELSE {})}
    \cup
    {Outcome(s, [c EXCEPT !.pc = "transform"], r) : x \in {1} \cap
        (IF s.scaler # Unfitted THEN {1} ELSE {})}

\* self.scaler.transform(input_data): NotFittedError (AttributeError in the middle of
\* a fit, scale_ being set last) from a scaler without its statistics, else the input
\* scaled by the scaler as it is now.
ScalerTransform(s, c, r) ==
    IF s.scaler \in {Unfitted, Refitting}
    THEN {Outcome(s, Finish(c, "raise"), r)}
    ELSE {Outcome(s, [c EXCEPT !.pc = "predict", !.used[1] = s.scaler], r)}

\* self.model.predict(input_scaled)[0], by the model as it is now: NotFittedError from
\* an unfitted one; from a forest in the middle of its fit an exception or the mean
\* over the trees it has.
ModelPredict(s, c, r) ==
    {Outcome(s, Finish(c, "raise"), r) : x \in {1} \cap
        (IF s.model \in {Unfitted, Refitting} THEN {1} ELSE {})}
    \cup
    {Outcome(s, [c EXCEPT !.pc = "trees", !.used[2] = s.model], r) : x \in {1} \cap
        (IF s.model # Unfitted THEN {1} ELSE {})}

\* The per-tree predictions of self.model.estimators_ as they are now, the
\* confidence and the return.
TreesPredict(s, c, r) == {Outcome(s, Finish([c EXCEPT !.used[3] = s.model], "ok"), r)}

\* self.model = joblib.load(self.model_path)
LoadModelFile(s, c, r) ==
    IF s.modelFile.st = "absent" THEN EnterTrain(s, c, r)
    ELSE IF s.modelFile.st = "corrupt" THEN {Outcome(s, AfterLoad(c, "false"), r)}
    ELSE {Outcome([s EXCEPT !.model = s.modelFile.run], [c EXCEPT !.pc = "load_scaler"], r)}

\* self.scaler = joblib.load(self.scaler_path); return True
LoadScalerFile(s, c, r) ==
    IF s.scalerFile.st = "absent" THEN EnterTrain(s, c, r)
    ELSE IF s.scalerFile.st = "corrupt" THEN {Outcome(s, AfterLoad(c, "false"), r)}
    ELSE {Outcome([s EXCEPT !.scaler = s.scalerFile.run], AfterLoad(c, "true"), r)}

\* One step of the call the thread c is in, on the instance and files s.
StepsOf(s, c, r) ==
    CASE c.pc = "check" -> Check(s, c, r)
      [] c.pc = "transform" -> ScalerTransform(s, c, r)
      [] c.pc = "predict" -> ModelPredict(s, c, r)
      [] c.pc = "trees" -> TreesPredict(s, c, r)
      [] c.pc = "load_model" -> LoadModelFile(s, c, r)
      [] c.pc = "load_scaler" -> LoadScalerFile(s, c, r)
      [] c.pc = "fit_scaler" ->
            {Outcome([s EXCEPT !.scaler = Refitting], [c EXCEPT !.pc = "fit_scaler_end"], r)}
      [] c.pc = "fit_scaler_end" ->
            {Outcome([s EXCEPT !.scaler = c.run], [c EXCEPT !.pc = "fit_model"], r)}
      [] c.pc = "fit_model" ->
            {Outcome([s EXCEPT !.model = Refitting], [c EXCEPT !.pc = "fit_model_end"], r)}
      [] c.pc = "fit_model_end" ->
            {Outcome([s EXCEPT !.model = c.run], [c EXCEPT !.pc = "dump_model"], r)}
      [] c.pc = "dump_model" ->
            {Outcome([s EXCEPT !.modelFile = Ok(s.model)], [c EXCEPT !.pc = "dump_scaler"], r)}
      [] c.pc = "dump_scaler" ->
            {Outcome([s EXCEPT !.scalerFile = Ok(s.scaler)], AfterTrain(c), r)}
      [] OTHER -> {}

\* A thread calls op on ml_model.
Call(t, op, at) ==
    /\ th[t].pc \in {"idle", "done"}
    /\ th' = [th EXCEPT ![t] = [IdleThread EXCEPT !.op = op, !.pc = at, !.pre = Cur]]

\* A request thread calls ml_model.predict_power_output(...).
StartPredict(t) ==
    /\ Call(t, "predict", "check")
    /\ UNCHANGED <<model, scaler, modelFile, scalerFile, nextRun, restOfTh>>

\* A request thread calls ml_model.load_model() (ModelInfoView.get).
StartLoad(t) ==
    /\ Call(t, "load", "load_model")
    /\ UNCHANGED <<model, scaler, modelFile, scalerFile, nextRun, restOfTh>>

\* A thread calls ml_model.train_model().
StartTrain(t) ==
    /\ th[t].pc \in {"idle", "done"}
    /\ \E o \in EnterTrain(Cur, [IdleThread EXCEPT !.op = "train", !.pre = Cur], nextRun) :
          /\ th' = [th EXCEPT ![t] = o.c]
          /\ nextRun' = o.r
    /\ UNCHANGED <<model, scaler, modelFile, scalerFile, restOfTh>>

\* The thread t runs: the next step of its call.
ThreadStep(t) ==
    /\ \E o \in StepsOf(Cur, th[t], nextRun) :
          /\ Becomes(o.st)
          /\ th' = [th EXCEPT ![t] = o.c]
          /\ nextRun' = o.r
    /\ UNCHANGED restOfTh

\* ------------------------------------------------------------------ a raising Predictor

\* No predict_power_output call of the grid search has raised.
NotRaised == <<Unbound, Unbound>>

FailIdle == raisedAt = NotRaised

\* The grid search with try/except Exception: continue around the call: the cell is
\* skipped and the loops go on.
OptRaiseSwallowed ==
    /\ pc = "loop"
    /\ calls' = calls + 1
    /\ lastCall' = <<tilt_range[ti], azimuth_range[ai]>>
    /\ raisedAt' = <<tilt_range[ti], azimuth_range[ai]>>
    /\ IF ai < Len(azimuth_range)
       THEN ai' = ai + 1 /\ UNCHANGED <<ti, pc>>
       ELSE /\ ai' = 1
            /\ IF ti < Len(tilt_range)
               THEN ti' = ti + 1 /\ UNCHANGED pc
               ELSE pc' = "return" /\ UNCHANGED ti
    /\ UNCHANGED <<tree, best_output, best_tilt, best_azimuth, restOfFail>>

\* The predict_power_output call for (tilt, azimuth) raises: nothing in
\* find_optimal_configuration catches it, so the call ends there with the exception.
OptRaise ==
    /\ pc = "loop"
    /\ calls' = calls + 1
    /\ lastCall' = <<tilt_range[ti], azimuth_range[ai]>>
    /\ raisedAt' = <<tilt_range[ti], azimuth_range[ai]>>
    /\ pc' = "raised"
    /\ UNCHANGED <<tree, ti, ai, best_output, best_tilt, best_azimuth, restOfFail>>

\* What every other specification starts from.
MoreIdle == FailIdle /\ RecIdle /\ WxIdle /\ ThIdle

\* ------------------------------------------------------------------ specifications

\* The grid search at rest, as Spec sees it.
OptIdle ==
    /\ tree = [tt |-> 0, ta |-> 0, ll |-> 0, lr |-> 0, ul |-> 0, ur |-> 0]
    /\ pc = "idle"
    /\ ti = 1
    /\ ai = 1
    /\ best_output = Unbound
    /\ best_tilt = Unbound
    /\ best_azimuth = Unbound
    /\ calls = 0
    /\ lastCall = <<Unbound, Unbound>>

Init == InitStore /\ OptIdle /\ PredIdle /\ RepIdle /\ ArgsIdle /\ GenIdle /\ ExIdle /\ MoreIdle

Next ==
    \/ TrainModel /\ UNCHANGED rep
    \/ LoadModel /\ UNCHANGED rep
    \/ PredictPowerOutput /\ UNCHANGED rep
    \/ ExtDumpModel /\ UNCHANGED rep
    \/ ExtDumpScaler /\ UNCHANGED rep
    \/ CorruptFile /\ UNCHANGED rep
    \/ DeleteFile /\ UNCHANGED rep
    \/ Restart /\ UNCHANGED rep

Spec == Init /\ [][Next]_vars

\* One process predicting again and again while it trains, loads and restarts and
\* while the retrain_model command of another process rewrites the files under it.
NextRepeat ==
    \/ PredictArgs
    \/ TrainModel /\ rep' = NoRep
    \/ LoadModel /\ rep' = NoRep
    \/ Restart /\ rep' = NoRep
    \/ ExtDumpModel /\ UNCHANGED rep
    \/ ExtDumpScaler /\ UNCHANGED rep

SpecRepeat == Init /\ [][NextRepeat]_vars

InitSearch == InitStore /\ InitOpt /\ PredIdle /\ RepIdle /\ ArgsIdle /\ GenIdle /\ ExIdle /\ MoreIdle

NextOpt == OptStart \/ OptStep \/ OptReturn

SpecOpt == InitSearch /\ [][NextOpt]_vars

InitArith == InitStore /\ OptIdle /\ InitPredict /\ RepIdle /\ ArgsIdle /\ GenIdle /\ ExIdle /\ MoreIdle

SpecPredict == InitArith /\ [][PredictReturn]_vars

\* The regressors of the grid search with a Predictor that can raise: the splits at
\* the default angles.
FailFastTrees == {tr \in Trees : tr.tt = 30 /\ tr.ta = 180}

InitFailFast == InitSearch /\ tree \in FailFastTrees

\* The grid search when any of its predict_power_output calls can raise.
NextFailFast == OptStart \/ OptStep \/ OptRaise \/ OptReturn

SpecFailFast == InitFailFast /\ [][NextFailFast]_vars

InitWeather ==
    /\ InitStore /\ OptIdle /\ PredIdle /\ RepIdle /\ ArgsIdle /\ GenIdle /\ ExIdle
    /\ FailIdle /\ RecIdle /\ InitWx /\ ThIdle

SpecWeather == InitWeather /\ [][GetWeatherData]_vars

\* The server process, fresh with nothing persisted or holding a trained pair, and
\* its threads at rest.
InitThreads ==
    /\ \/ InitStore
       \/ /\ model = 1 /\ scaler = 1 /\ modelFile = Ok(1) /\ scalerFile = Ok(1)
          /\ nextRun = 2 /\ ext = 0 /\ faulted = FALSE /\ last = NoCall
    /\ OptIdle /\ PredIdle /\ RepIdle /\ ArgsIdle /\ GenIdle /\ ExIdle /\ MoreIdle

\* Request threads calling predict_power_output, load_model and train_model on the
\* shared instance, interleaved between any two steps.
NextThreads ==
    \/ \E t \in Workers : StartPredict(t)
    \/ \E t \in Workers : StartLoad(t)
    \/ \E t \in Workers : StartTrain(t)
    \/ \E t \in Workers : ThreadStep(t)

SpecThreads == InitThreads /\ [][NextThreads]_vars

\* A process whose pair is fitted, whatever runs it is from and whatever the files
\* hold by now.
InitReaders ==
    /\ model \in 1..MaxRuns
    /\ scaler \in 1..MaxRuns
    /\ modelFile \in {Absent} \cup {Ok(r) : r \in 1..MaxRuns}
    /\ scalerFile \in {Absent} \cup {Ok(r) : r \in 1..MaxRuns}
    /\ nextRun = 1 /\ ext = 0 /\ faulted = FALSE /\ last = NoCall
    /\ OptIdle /\ PredIdle /\ RepIdle /\ ArgsIdle /\ GenIdle /\ ExIdle /\ MoreIdle

\* Request threads that only predict.
NextReaders ==
    \/ \E t \in Threads : StartPredict(t)
    \/ \E t \in Threads : ThreadStep(t)

SpecReaders == InitReaders /\ [][NextReaders]_vars

InitCalls == InitStore /\ OptIdle /\ PredIdle /\ RepIdle /\ InitArgs /\ GenIdle /\ ExIdle /\ MoreIdle

NextArgs ==
    \/ PredictCall
    \/ PredictPowerViewPost
    \/ SetupInitialData
    \/ FindOptimalConfiguration
    \/ RecommendOptimalViewPost

SpecArgs == InitCalls /\ [][NextArgs]_vars

InitData == InitStore /\ OptIdle /\ PredIdle /\ RepIdle /\ ArgsIdle /\ InitGen /\ ExIdle /\ MoreIdle

NextGen == GenerateSyntheticData \/ TrainModelData \/ NumpyDraw

SpecGen == InitData /\ [][NextGen]_vars

NextRetrain == RetrainCommand \/ TrainModelData

SpecRetrain == InitData /\ [][NextRetrain]_vars

InitRow == InitStore /\ OptIdle /\ PredIdle /\ RepIdle /\ ArgsIdle /\ GenIdle /\ InitExample /\ MoreIdle

SpecExample == InitRow /\ [][MakeExample]_vars

\* ------------------------------------------------------------------ the grid search's claims

\* The grid of the specification: tilt 0, 5, ..., 60 and azimuth 0, 15, ..., 360.
GridPairs == {<<5 * i, 15 * j>> : i \in 0..12, j \in 0..24}

\* The n-th pair of the grid, ascending tilt and ascending azimuth within a tilt.
NthPair(n) == <<5 * ((n - 1) \div 25), 15 * ((n - 1) % 25)>>

\* p comes before q in iteration order.
Before(p, q) == p[1] < q[1] \/ (p[1] = q[1] /\ p[2] < q[2])

\* The Predictor's output at a pair of the grid.
OutputAt(p) == PredictOutputAt(tree, p[1], p[2])

\* The returned triple.
Result == <<best_tilt, best_azimuth, best_output>>

\* C1: the returned best_output is the maximum Predictor output over the grid, and
\* when that maximum is positive the returned angles are a grid pair with that output.
C1_BestIsGridMaximum ==
    pc = "done" =>
        /\ \A p \in GridPairs : OutputAt(p) <= best_output
        /\ \E p \in GridPairs : OutputAt(p) = best_output
        /\ best_output > 0 =>
              /\ <<best_tilt, best_azimuth>> \in GridPairs
              /\ OutputAt(<<best_tilt, best_azimuth>>) = best_output

\* C1's case: the only positive output is at the last pair of the grid, and it is returned.
C1_Witness ==
    /\ pc = "done"
    /\ best_output > 0
    /\ <<best_tilt, best_azimuth>> = <<60, 360>>
    /\ \A p \in GridPairs \ {<<60, 360>>} : OutputAt(p) = 0

\* C2: of the grid pairs sharing the maximum, the first in iteration order is
\* returned; a constant Predictor gives (0, 0, constant).
C2_FirstMaximumWins ==
    pc = "done" =>
        /\ <<best_tilt, best_azimuth>> \in GridPairs
        /\ OutputAt(<<best_tilt, best_azimuth>>) = best_output
        /\ \A p \in GridPairs :
              /\ OutputAt(p) <= best_output
              /\ Before(p, <<best_tilt, best_azimuth>>) => OutputAt(p) < best_output
        /\ (\A p \in GridPairs : OutputAt(p) = OutputAt(<<0, 0>>))
              => Result = <<0, 0, OutputAt(<<0, 0>>)>>

\* C2's case: several pairs share a positive maximum, the first of them is not the
\* first pair of the grid, and it is the one returned.
C2_Witness ==
    /\ pc = "done"
    /\ best_output > 0
    /\ <<best_tilt, best_azimuth>> # <<0, 0>>
    /\ \E p \in GridPairs :
          Before(<<best_tilt, best_azimuth>>, p) /\ OutputAt(p) = best_output

\* C3: the k-th Predictor call of an invocation is for the k-th pair of the grid,
\* and an invocation that completes has made exactly 325 calls.
C3_CallsFollowTheGrid ==
    /\ calls <= 325
    /\ calls > 0 => lastCall = NthPair(calls)
    /\ pc \in {"return", "done"} => calls = 325

\* C3's case: a completed invocation whose last call was for (60, 360).
C3_Witness == pc = "done" /\ calls = 325 /\ lastCall = <<60, 360>>

\* C4: the search starts from (0, 0, 0), and returns it when every output is 0.
C4_InitialBestAndAllZero ==
    /\ (pc = "loop" /\ calls = 0) => Result = <<0, 0, 0>>
    /\ (pc = "done" /\ \A p \in GridPairs : OutputAt(p) = 0) => Result = <<0, 0, 0>>

\* C4's case: all 325 outputs were 0 and the invocation completed.
C4_Witness == pc = "done" /\ calls = 325 /\ \A p \in GridPairs : OutputAt(p) = 0

\* C5: best_output is at least the output at tilt 0, azimuth 0, and at least the
\* output at every pair of the grid.
C5_BestAtLeastEveryCandidate ==
    pc = "done" =>
        /\ best_output >= PredictOutputAt(tree, 0, 0)
        /\ \A i \in 0..12, j \in 0..24 : best_output >= PredictOutputAt(tree, 5 * i, 15 * j)

\* C5's case: the completed search found strictly more than tilt 0, azimuth 0 gives,
\* at a pair with another tilt and another azimuth.
C5_Witness ==
    /\ pc = "done"
    /\ best_output > PredictOutputAt(tree, 0, 0)
    /\ best_tilt > 0
    /\ best_azimuth > 0

\* ------------------------------------------------------------------ the Predictor's claims

\* A float is a finite number within lo..hi (in fixed point).
Within(x, lo, hi) == x.k = "num" /\ lo <= x.v /\ x.v <= hi

\* C6: whatever the model predicts, the returned output is a number >= 0 and the
\* returned confidence a number within [0, 1].
C6_OutputAndConfidenceBounds ==
    predOut # NoValue =>
        /\ predOut.output.k = "num"
        /\ predOut.output.v >= 0
        /\ Within(predOut.confidence, 0, Scale)

\* C6's case: the trees' predictions have mean zero, so the raw confidence is nan
\* or -inf, and the call has returned.
C6_Witness ==
    /\ predOut # NoValue
    /\ predIn.has
    /\ Confidence(TRUE, predIn.ps).k \in {"nan", "ninf"}

\* The call started in a fresh process with neither file persisted.
FreshAndEmpty(c) == c.pre = Store(Unfitted, Unfitted, Absent, Absent)

\* C7: predict_power_output in a fresh process with no persisted file (and a
\* training run that completes) trains once through load_model, leaves a fitted
\* pair in memory and returns output >= 0 and confidence in [0, 1].
C7_SelfHealingPredict ==
    (last.op = "predict" /\ FreshAndEmpty(last) /\ last.fault = "none") =>
        /\ last.ret = "ok"
        /\ last.trained
        /\ last.loaded = "true"
        /\ IsFitted(model) /\ IsFitted(scaler)
        /\ last.used = <<scaler, model>>
        /\ modelFile.st = "ok" /\ scalerFile.st = "ok"
        /\ last.value.output.k = "num" /\ last.value.output.v >= 0
        /\ Within(last.value.confidence, 0, Scale)

\* C7's case: such a call has returned.
C7_Witness ==
    last.op = "predict" /\ FreshAndEmpty(last) /\ last.ret = "ok" /\ last.trained

\* ------------------------------------------------------------------ load_model's claims

\* A fitted model and a fitted standardizer are in memory.
PairFitted == IsFitted(model) /\ IsFitted(scaler)

\* The first file load_model could not load was absent / was corrupt.
FirstFailure(c) ==
    IF c.pre.modelFile.st # "ok" THEN c.pre.modelFile.st
    ELSE IF c.pre.scalerFile.st # "ok" THEN c.pre.scalerFile.st
    ELSE "none"

\* C8 as claimed: load_model returns True exactly when a fitted pair is in memory
\* after the call; an absent file means training and True; False only on corruption
\* and without training.
C8_Original ==
    (last.op = "load" /\ ~faulted) =>
        /\ (last.ret = "true") <=> PairFitted
        /\ (last.pre.modelFile.st = "absent" \/ last.pre.scalerFile.st = "absent")
              => (last.trained /\ last.ret = "true")
        /\ last.ret = "false" => ~last.trained

\* C8 as amended: True only with a fitted pair in memory; True when both files load;
\* training (and True once it completes) exactly when the first file that fails to
\* load is absent; False, without training, exactly when it is corrupt.
C8_Amended ==
    last.op = "load" =>
        /\ last.ret = "true" => PairFitted
        /\ FirstFailure(last) = "none" => (last.ret = "true" /\ ~last.trained)
        /\ last.trained <=> FirstFailure(last) = "absent"
        /\ last.trained => last.ret = (IF last.fault = "none" THEN "true" ELSE "raise")
        /\ (last.ret = "false") <=> FirstFailure(last) = "corrupt"

\* C8's case: load_model returned False although a fitted pair is in memory.
C8_Witness == last.op = "load" /\ last.ret = "false" /\ PairFitted

\* C9 as claimed: a load_model call that returns False has replaced neither the
\* in-memory model nor the in-memory standardizer (no training run having failed).
C9_FailsClosed ==
    (last.op = "load" /\ last.ret = "false" /\ ~faulted) =>
        (model = last.pre.model /\ scaler = last.pre.scaler)

\* C10 as claimed: the standardizer and the regressor a prediction uses come from
\* the same training run (no training run having failed).
C10_PairFromOneRun ==
    (last.op = "predict" /\ last.ret = "ok" /\ ~faulted) => last.used[1] = last.used[2]

\* ------------------------------------------------------------------ predict_power_output's claims

\* C11 as claimed: a prediction whose load_model call returned False does not go on
\* to the standardizer and the regressor, and no not-fitted error leaves
\* predict_power_output (no training run having failed).
C11_NoNotFittedError ==
    (last.op = "predict" /\ last.loaded = "false" /\ ~faulted) => last.ret # "raise"

\* C13: a prediction entered with a fitted standardizer in memory calls neither
\* load_model nor train_model and leaves the in-memory model, the in-memory
\* standardizer and both files as they were; and no call of the instance leaves an
\* unfitted standardizer where a fitted one was, so the Predictor loads the pair at
\* most once in a process.
C13_FittedPredictIsFrame ==
    /\ (last.op = "predict" /\ last.pre.scaler # Unfitted) =>
          /\ last.loaded = "none"
          /\ ~last.trained
          /\ Cur = last.pre
    /\ (last.op # "none" /\ last.pre.scaler # Unfitted) => scaler # Unfitted

\* C13's case: a prediction has returned from the pair in memory while a file of the
\* pair was missing or damaged on disk.
C13_Witness ==
    /\ last.op = "predict" /\ last.ret = "ok"
    /\ last.pre.scaler # Unfitted
    /\ (modelFile.st # "ok" \/ scalerFile.st # "ok")

\* C17 as claimed: whenever both files exist, the persisted model and the persisted
\* standardizer come from the same training run.
C17_FilesAreMatchedPair ==
    (modelFile.st = "ok" /\ scalerFile.st = "ok") => modelFile.run = scalerFile.run

\* C12: a prediction that follows a prediction with the same arguments, with no
\* train_model, load_model or restart of the process between the two, returns the
\* pair the earlier one returned, whatever happened to the files meanwhile.
C12_RepeatedPredictAgrees ==
    [][(rep # NoRep /\ rep' # NoRep /\ rep'.x = rep.x) => rep'.value = rep.value]_vars

\* C12's case: the second of two such predictions has returned, and the files no
\* longer hold the pair it used.
C12_Witness ==
    /\ rep.n = 2
    /\ last.op = "predict"
    /\ (modelFile # Ok(rep.used[2]) \/ scalerFile # Ok(rep.used[1]))

\* ------------------------------------------------------------------ the arguments' claims

\* The reading w with every missing weather key present with its documented default.
WithDefaults(w) ==
    w @@ [solar_irradiance |-> 5, temperature |-> 25, humidity |-> 50, wind_speed |-> 5,
          cloud_cover |-> 30]

\* The column of input_data a weather key fills.
Column(key) ==
    CASE key = "solar_irradiance" -> 7
      [] key = "temperature" -> 8
      [] key = "humidity" -> 9
      [] key = "wind_speed" -> 10
      [] key = "cloud_cover" -> 11

\* C14: with any of the weather keys missing, predict_power_output builds the frame
\* and returns the pair it builds and returns when each missing key is present with
\* its default (5.0, 25.0, 50.0, 5.0, 30.0), and the pair is a pair of numbers.
C14_MissingKeysAreDefaults ==
    apc = "predicted" =>
        /\ InputData(args, weather_data) = InputData(args, WithDefaults(weather_data))
        /\ result = PredictValue(args, WithDefaults(weather_data), forest)
        /\ result.output.k = "num" /\ result.confidence.k = "num"

\* C14's case: a prediction has returned for a reading with some weather keys
\* missing and others present, from a forest that splits on a missing one.
C14_Witness ==
    /\ apc = "predicted"
    /\ \E k \in WeatherKeys : k \in DOMAIN weather_data
    /\ \E k \in WeatherKeys \ DOMAIN weather_data : forest.feat = Column(k)

\* The reading w without its source tag.
Untagged(w) == [k \in DOMAIN w \ {"source"} |-> w[k]]

\* C15: predict_power_output returns for a reading what it returns for the same
\* reading without a source and with any other source, and
\* find_optimal_configuration returns for a tagged reading what it returns for the
\* same reading without the tag.
C15_SourceIsIgnored ==
    /\ apc = "predicted" =>
          /\ result = PredictValue(args, Untagged(weather_data), forest)
          /\ \A src \in Sources :
                result = PredictValue(args, Untagged(weather_data) @@ ("source" :> src), forest)
    /\ (apc = "optimized" /\ "source" \in DOMAIN weather_data) =>
          optimum = FindOptimalOn(args, Untagged(weather_data), forest)

\* C15's case: the grid search has returned a tilt above 0 for a reading tagged as
\* mock data.
C15_Witness ==
    /\ apc = "optimized"
    /\ "source" \in DOMAIN weather_data
    /\ weather_data["source"] = "mock_data"
    /\ optimum.tilt > 0

\* C16: the row a caller stores holds the Predictor's per-day output for 'daily',
\* 7 times it for 'weekly' and 30 times it for 'monthly', and the Predictor's
\* confidence as it is, in the view and in the command; the Predictor's own result
\* is the same whatever the timeframe.
C16_CallerScales ==
    record.by # "none" =>
        /\ result = PredictValue(args, weather_data, forest)
        /\ record.confidence_score = result.confidence
        /\ record.predicted_output.k = "num"
        /\ record.predicted_output.v =
              (CASE record.timeframe = "daily" -> result.output.v
                 [] record.timeframe = "weekly" -> 7 * result.output.v
                 [] record.timeframe = "monthly" -> 30 * result.output.v)

\* C16's case: the command has stored a monthly row for an output above 0 with a
\* confidence below 1.
C16_Witness ==
    /\ record.by = "command"
    /\ record.timeframe = "monthly"
    /\ result.output.v > 0
    /\ result.confidence.v < Scale
    /\ record.confidence_score.v > 0

\* ------------------------------------------------------------------ the training data's claims

\* C18 as claimed: the training run of a retrain_model command generates as many
\* examples as the command's --samples says.
C18_TrainsOnRequestedSamples == cmd # NoCmd => trainedOn = cmd.samples

\* C19: every example generate_synthetic_data makes has its fields inside their
\* documented ranges and a power_output of at least 0, and no draw makes the loop
\* body raise.
C19_ExampleInRange ==
    example # NotMade =>
        /\ example # NoExample
        /\ example.latitude >= -60 /\ example.latitude <= 60
        /\ example.longitude >= -180 /\ example.longitude <= 180
        /\ example.surface_area > 0
        /\ example.tilt_angle >= 0 /\ example.tilt_angle <= 60
        /\ example.azimuth_angle >= 0 /\ example.azimuth_angle <= 360
        /\ example.panel_efficiency >= 15 /\ example.panel_efficiency <= 25
        /\ example.solar_irradiance > 0
        /\ example.humidity >= 0 /\ example.humidity <= 100
        /\ example.wind_speed >= 0
        /\ example.cloud_cover >= 0 /\ example.cloud_cover <= 100
        /\ example.power_output >= 0

\* C19's case: an example whose base_power is above 0 and whose noise is below
\* -base_power has been made, with a power_output of 0.
C19_Witness ==
    /\ example # NotMade /\ example # NoExample
    /\ BasePower(example) > 0
    /\ BasePower(example) + (BasePower(example) * draws.z) \div 10 < 0
    /\ example.power_output = 0

\* C20: a dataset generate_synthetic_data returns for the n_samples of the first
\* call is the dataset the first call returned, whatever state the generator was in
\* at either call.
C20_SameSamplesSameDataset ==
    (dataset # NoData /\ dataset.n = first.data.n) => dataset = first.data

\* C20's case: a call has repeated the first call's n_samples, for more than one
\* example, with the generator in another state than at the first call.
C20_Witness == again /\ dataset.n > 1 /\ dataset.n = first.data.n

\* C25. A retrain replaces the pair in memory wholesale: after a train_model call that
\* raised (in model.fit after the standardizer was fitted, or in either joblib.dump),
\* the model and the standardizer in memory are both the ones from before the call.
C25_FailedTrainKeepsPair ==
    (last.op = "train" /\ last.ret = "raise")
        => (model = last.pre.model /\ scaler = last.pre.scaler)

\* C27. In every state the train_model, load_model and predict_power_output calls can
\* reach, with each file present, absent or corrupt and every artifact a fitted
\* object, a fitted standardizer in memory implies a fitted regressor in memory.
C27_FittedScalerMeansFittedModel == IsFitted(scaler) => IsFitted(model)

\* feature_columns of prepare_features: the columns of the training frame, in order.
feature_columns ==
    <<"latitude", "longitude", "surface_area", "tilt_angle", "azimuth_angle",
      "panel_efficiency", "solar_irradiance", "temperature", "humidity",
      "wind_speed", "cloud_cover">>

\* The keys of the dict predict_power_output builds input_data from, in order.
input_columns ==
    <<"latitude", "longitude", "surface_area", "tilt_angle", "azimuth_angle",
      "panel_efficiency", "solar_irradiance", "temperature", "humidity",
      "wind_speed", "cloud_cover">>

\* C26. Every vector that reaches the regressor has the 11 fields in the one fixed
\* order at training and at prediction, and the standardizer that transformed it for
\* a prediction is the one fitted in the training run that fitted the regressor (no
\* training run having failed).
C26_PairedScalerSameColumns ==
    /\ input_columns = feature_columns
    /\ Len(feature_columns) = Len(FittedMean)
    /\ (last.op = "predict" /\ last.ret = "ok" /\ ~faulted)
          => \E r \in 1..MaxRuns : last.used = <<r, r>>

\* ------------------------------------------------------------------ the fail-fast grid search

\* The position of a grid pair in iteration order, from 1.
CellIndex(p) == 25 * (p[1] \div 5) + (p[2] \div 15) + 1

\* C23: once the Predictor has raised at a grid cell, find_optimal_configuration has
\* ended with the exception: that call was the last one (no retry of the cell, no
\* later cell: exactly the cells up to it were evaluated, once each) and no triple is
\* returned.
C23_FailFast ==
    raisedAt # NotRaised =>
        /\ pc = "raised"
        /\ lastCall = raisedAt
        /\ calls = CellIndex(raisedAt)
        /\ NthPair(calls) = raisedAt

\* The Predictor raised at a cell in the middle of the grid, after a better output
\* had been found.
C23_Witness ==
    /\ pc = "raised"
    /\ raisedAt = <<35, 195>>
    /\ best_output > 0

\* ------------------------------------------------------------------ the recommendation

\* C28: with the pair and the reading the same for the grid search and the
\* prediction of the current configuration, improvement_percentage is not negative
\* when the current configuration is a pair of the grid (the defaults 30 / 180
\* included), and it is exactly 0, with no division evaluated, when the current
\* output is 0.
C28_ImprovementNotNegative ==
    apc = "recommended" =>
        /\ <<recommendation.current_tilt, recommendation.current_azimuth>> \in GridPairs
              => recommendation.improvement_percentage >= 0
        /\ recommendation.current_output = 0
              => (recommendation.improvement_percentage = 0 /\ ~recommendation.divided)

\* A recommendation for the default current configuration, its output positive and
\* below the grid's maximum.
C28_Witness ==
    /\ apc = "recommended"
    /\ recommendation.current_tilt = 30
    /\ recommendation.current_azimuth = 180
    /\ recommendation.current_output > 0
    /\ recommendation.improvement_percentage > 0

\* ------------------------------------------------------------------ the weather service's claims

\* The first request to OpenWeatherMap is made and answered with a usable response.
PrimaryOk == net.key /\ net.ow[1] = "ok"

\* The request to NASA POWER is answered with a usable response.
SecondaryOk == net.nasa = "ok"

\* Every request either succeeds or fails as a request (no response lacking keys).
RequestFailuresOnly == \A i \in DOMAIN net.ow : net.ow[i] # "malformed"

\* C24: in auto mode, for every combination of provider successes and request
\* failures, get_weather_data returns a reading with the five numeric fields and a
\* source tag: the primary's reading (tag openweathermap) if the primary fetch
\* succeeds, otherwise the secondary's (tag nasa_power) if the secondary fetch
\* succeeds, otherwise a synthetic one (tag mock_data).
C24_AutoPrecedence ==
    (net.source = "auto" /\ fetch.ret # "none" /\ RequestFailuresOnly) =>
        /\ fetch.ret = "ok"
        /\ DOMAIN fetch.data = WeatherKeys \cup {"source"}
        /\ \A k \in WeatherKeys : fetch.data[k] \in Int
        /\ IF PrimaryOk THEN fetch.data = OpenweatherReading(net.owData)
           ELSE IF SecondaryOk THEN fetch.data = NasaReading(net.nasaData)
           ELSE \E u \in [WeatherKeys -> 0..UnitSteps] :
                   fetch.data = GetMockWeatherData(net.latitude, u)

\* The primary failed and the secondary's reading was returned.
C24_Witness ==
    /\ net.source = "auto"
    /\ net.key
    /\ net.ow[1] = "request_error"
    /\ fetch.ret = "ok"
    /\ fetch.data.source = "nasa_power"

\* C30 as claimed: during one get_weather_data call in auto mode no provider is
\* asked more than once, and a reading fetched from a provider is never dropped
\* for synthetic data.
C30_AskedOnceNothingDiscarded ==
    (net.source = "auto" /\ fetch.ret = "ok") =>
        /\ \A i, j \in DOMAIN fetch.asked : fetch.asked[i] = fetch.asked[j] => i = j
        /\ fetch.got # {} => fetch.data.source # "mock_data"

\* ------------------------------------------------------------------ the threads' claims

\* C21 as claimed: with train_model or load_model running beside predictions, every
\* prediction that returns has scaled and regressed with a complete pair from one
\* training run: never a standardizer of one run with a regressor of another, never
\* an estimator in the middle of its fit.
C21_PredictSeesOnePair ==
    \A t \in Threads :
        (th[t].op = "predict" /\ th[t].pc = "done" /\ th[t].ret = "ok") =>
            \E r \in 1..MaxRuns : th[t].used = <<r, r, r>>

\* C22: with only predictions running on a fitted pair, under every interleaving a
\* call that has returned returned what PredictOn gives for the instance it started
\* on, from the same standardizer, regressor and trees, and while it runs the model,
\* the standardizer and the files are what they were when it started.
C22_ConcurrentPredictsArePure ==
    \A t \in Threads :
        th[t].op = "predict" =>
            /\ Cur = th[t].pre
            /\ th[t].pc = "done" =>
                  LET alone == PredictOn(th[t].pre, nextRun, "none", FALSE)
                  IN /\ th[t].ret = alone.ret
                     /\ <<th[t].used[1], th[t].used[2]>> = alone.used
                     /\ th[t].used[3] = alone.used[2]
                     /\ ~th[t].trained

\* Three predictions in flight at once: one returned, one between scaling and
\* regressing, one before its check.
C22_Witness ==
    /\ th["t1"].pc = "done" /\ th["t1"].ret = "ok"
    /\ th["t2"].pc = "predict"
    /\ th["t3"].pc = "check"
    /\ modelFile = Absent

\* C29 as claimed: of the predictions that start on an uninitialized store with no
\* persisted artifacts, at most one triggers a training run.
C29_AtMostOneTraining ==
    \A t, u \in Threads :
        (/\ th[t].op = "predict" /\ th[t].trained
         /\ th[u].op = "predict" /\ th[u].trained
         /\ th[t].pre = Store(Unfitted, Unfitted, Absent, Absent)
         /\ th[u].pre = Store(Unfitted, Unfitted, Absent, Absent))
            => t = u

============================================================================
